---- MODULE Spec2Model ----
(***************************************************************************)
(* DownCLI: a concurrent command-line downloader (src/DownCLI.py).         *)
(*                                                                         *)
(* download() probes every URL with a HEAD request on the calling thread,  *)
(* registers one progress task per URL and submits one copy_url job per    *)
(* URL to a ThreadPoolExecutor(max_workers=4).  copy_url streams the body  *)
(* to a file in chunks of 32768 bytes and polls the global done_event,     *)
(* which the SIGINT handler sets, after every chunk.                       *)
(*                                                                         *)
(* Byte strings are kept as lists of extents [src, off, len]: len bytes of *)
(* the body named src starting at its offset off ("hole" is zero fill).    *)
(* Header values and URLs are kept as lists of tokens so that split() and  *)
(* int() are computed rather than assumed.                                 *)
(***************************************************************************)
EXTENDS Integers, Sequences, FiniteSets, TLC

\* ---------------------------------------------------------------- bounds

\* Longest URL list of the general runs.
MaxUrls == 2

\* Length of a body shorter than one chunk (and than the write buffer).
ShortLen == 50

\* ----------------------------------------------------- program constants

\* ThreadPoolExecutor(max_workers=4)
MaxWorkers == 4

\* response.iter_content(32768)
ChunkSize == 32768

\* open(path, "wb"): a BufferedWriter with the default buffer size
BufferSize == 8192

\* progress.add_task(...): rich's default total of a new task
DefaultTotal == 100

\* requests.codes.ok
StatusOk == 200

\* --------------------------------------------------------- byte strings

Ext(src, off, len) == [src |-> src, off |-> off, len |-> len]

RECURSIVE ContentLen(_)
ContentLen(c) ==
    IF c = <<>> THEN 0 ELSE Head(c).len + ContentLen(Tail(c))

\* The first n bytes of c (all of c when it is shorter).
RECURSIVE Take(_, _)
Take(c, n) ==
    IF c = <<>> \/ n <= 0 THEN <<>>
    ELSE IF Head(c).len <= n
         THEN <<Head(c)>> \o Take(Tail(c), n - Head(c).len)
         ELSE <<Ext(Head(c).src, Head(c).off, n)>>

\* c without its first n bytes.
RECURSIVE Drop(_, _)
Drop(c, n) ==
    IF c = <<>> THEN <<>>
    ELSE IF n <= 0 THEN c
    ELSE IF Head(c).len <= n THEN Drop(Tail(c), n - Head(c).len)
    ELSE <<Ext(Head(c).src,
               IF Head(c).src = "hole" THEN 0 ELSE Head(c).off + n,
               Head(c).len - n)>> \o Tail(c)

\* Two extents that are one run of the same body (or of zero fill).
Joins(a, b) ==
    /\ a.src = b.src
    /\ \/ a.src = "hole"
       \/ a.off + a.len = b.off

\* The canonical extent list of a byte string: no empty extent, runs merged.
RECURSIVE Norm(_)
Norm(c) ==
    IF c = <<>> THEN <<>>
    ELSE IF Head(c).len = 0 THEN Norm(Tail(c))
    ELSE LET r == Norm(Tail(c))
         IN  IF r # <<>> /\ Joins(Head(c), Head(r))
             THEN <<Ext(Head(c).src, Head(c).off, Head(c).len + Head(r).len)>>
                      \o Tail(r)
             ELSE <<Head(c)>> \o r

\* A regular file after write(data) at offset pos: a write past the end
\* leaves a zero-filled gap.
WriteAt(c, pos, data) ==
    LET n    == ContentLen(c)
        gap  == IF pos > n THEN <<Ext("hole", 0, pos - n)>> ELSE <<>>
    IN  Norm(Take(c, pos) \o gap \o data \o Drop(c, pos + ContentLen(data)))

\* ------------------------------------------------- text: split() and int()

\* s.split(sep)[0]
RECURSIVE BeforeFirst(_, _)
BeforeFirst(s, sep) ==
    IF s = <<>> \/ Head(s) = sep THEN <<>>
    ELSE <<Head(s)>> \o BeforeFirst(Tail(s), sep)

\* s.split(sep)[-1]
RECURSIVE AfterLast(_, _)
AfterLast(s, sep) ==
    IF s = <<>> THEN <<>>
    ELSE IF s[Len(s)] = sep THEN <<>>
    ELSE Append(AfterLast(SubSeq(s, 1, Len(s) - 1), sep), s[Len(s)])

Digits == <<"0", "1", "2", "3", "4", "5", "6", "7", "8", "9">>

DigitValue(ch) ==
    IF \E d \in 1..10 : Digits[d] = ch
    THEN (CHOOSE d \in 1..10 : Digits[d] = ch) - 1
    ELSE -1

\* int(s) for a digit string; -1 stands for the ValueError int() raises.
RECURSIVE ParseInt(_)
ParseInt(s) ==
    IF s = <<>> THEN -1
    ELSE LET d == DigitValue(s[Len(s)])
         IN  IF d < 0 THEN -1
             ELSE IF Len(s) = 1 THEN d
             ELSE LET hi == ParseInt(SubSeq(s, 1, Len(s) - 1))
                  IN  IF hi < 0 THEN -1 ELSE 10 * hi + d

\* The decimal digits a server sends for the number n.
RECURSIVE Str(_)
Str(n) ==
    IF n < 10 THEN <<Digits[n + 1]>>
    ELSE Append(Str(n \div 10), Digits[(n % 10) + 1])

\* ------------------------------------------------------------- the servers

Url(host, segments) == <<"https:", "/", "/", host>> \o segments

\* What a server answers for one URL: the status and headers of its HEAD and
\* GET responses and the body of the GET response.
ServerA ==
    [url     |-> Url("h1", <<"/", "a">>),
     status  |-> 200,
     headers |-> [ContentType   |-> <<"text/html">>,
                  ContentLength |-> Str(ChunkSize + ShortLen)],
     body    |-> [id |-> "A", len |-> ChunkSize + ShortLen]]

\* Same final path segment as ServerA; not found; no Content-Length.
ServerB ==
    [url     |-> Url("h2", <<"/", "a">>),
     status  |-> 404,
     headers |-> [ContentType |-> <<"text/html", ";", " charset=utf-8">>],
     body    |-> [id |-> "B", len |-> ShortLen]]

\* Plain text sent compressed: Content-Length counts the compressed bytes,
\* iter_content yields the decoded ones.
ServerC ==
    [url     |-> Url("h1", <<"/", "c">>),
     status  |-> 200,
     headers |-> [ContentType   |-> <<"text/plain">>,
                  ContentLength |-> Str(ShortLen)],
     body    |-> [id |-> "C", len |-> ChunkSize]]

\* Content-Type header values: text/plain bare and with a parameter, two
\* near misses (a space before the ';', upper case) and another type.
LongTypes ==
    << <<"text/plain">>,
       <<"text/plain", ";", " charset=utf-8">>,
       <<"text/plain ", ";", " charset=utf-8">>,
       <<"TEXT/PLAIN">>,
       <<"application/octet-stream">> >>

\* The empty files of the long runs, one URL each.
ServerE(i) ==
    [url     |-> Url("h3", <<"/">> \o Str(i)),
     status  |-> 200,
     headers |-> [ContentType   |-> LongTypes[((i - 1) % Len(LongTypes)) + 1],
                  ContentLength |-> Str(0)],
     body    |-> [id |-> "E", len |-> 0]]

\* A response that carries no Content-Type header.
ServerD ==
    [url     |-> Url("h1", <<"/", "d">>),
     status  |-> 200,
     headers |-> [ContentLength |-> Str(0)],
     body    |-> [id |-> "D", len |-> 0]]

Servers == {ServerA, ServerB, ServerC, ServerD}

LongUrls == MaxWorkers + 1

\* Every server a URL of a run can name.
AllServers == Servers \cup {ServerE(i) : i \in 1..LongUrls}

Server(url) == CHOOSE s \in AllServers : s.url = url

\* download()'s arguments: every list of at most MaxUrls URLs, and one list
\* longer than the pool is wide.
ShortLists ==
    UNION {[1..n -> {s.url : s \in Servers}] : n \in 0..MaxUrls}

LongList == [i \in 1..LongUrls |-> ServerE(i).url]

UrlLists == ShortLists \cup {LongList}

\* download(sys.argv[1:], "./")
DestDir == <<".", "/">>

\* -------------------------------------------------------------- the state

VARIABLES
    urls,        \* download()'s argument
    dpc,         \* where download() is
    di,          \* position in urls of the URL the loop is at
    probed,      \* number of HEAD probes download() has issued
    exc,         \* the exception unwinding download(), if any
    tasks,       \* progress's tasks; TaskID t is tasks[t + 1]
    jobs,        \* the work items submitted to the pool, in order
    queue,       \* the pool's work queue: indices into jobs
    files,       \* the file system: path -> file
    done_event   \* threading.Event

vars == <<urls, dpc, di, probed, exc, tasks, jobs, queue, files, done_event>>

NoExc == [kind |-> "none", at |-> 0]

Terminated == {"completed", "aborted", "failed"}

Running == {j \in DOMAIN jobs : jobs[j].pc \notin Terminated \cup {"queued"}}

Init ==
    /\ urls \in UrlLists
    /\ dpc = "probe"
    /\ di = 1
    /\ probed = 0
    /\ exc = NoExc
    /\ tasks = <<>>
    /\ jobs = <<>>
    /\ queue = <<>>
    /\ files = <<>>
    /\ done_event = FALSE

\* ------------------------------------------------------------ download()

\* requests.head(url)
HeadResponse(url) ==
    [status_code |-> Server(url).status, headers |-> Server(url).headers]

\* response.headers['Content-Type'].split(';')[0]
ContentTypeOf(response) == BeforeFirst(response.headers.ContentType, ";")

\* FilenameOf that compares the whole header value with text/plain.
FilenameOf_WholeHeader(url, response) ==
    IF response.headers.ContentType = <<"text/plain">>
    THEN Append(AfterLast(url, "/"), ".txt")
    ELSE AfterLast(url, "/")

\* filename = url.split("/")[-1], plus '.txt' for text/plain
FilenameOf(url, response) ==
    IF ContentTypeOf(response) = <<"text/plain">>
    THEN Append(AfterLast(url, "/"), ".txt")
    ELSE AfterLast(url, "/")

\* os.path.join(dest_dir, filename)
PathJoin(dir, name) ==
    IF name # <<>> /\ Head(name) = "/" THEN name
    ELSE IF dir = <<>> \/ dir[Len(dir)] = "/" THEN dir \o name
    ELSE dir \o <<"/">> \o name

DestPath(url, response) == PathJoin(DestDir, FilenameOf(url, response))

ResponseCode(response) ==
    IF response.status_code = StatusOk
    THEN <<"green", response.status_code>>
    ELSE <<"red", response.status_code>>

\* The exception leaves the loop and both with blocks.
Raise(kind) ==
    /\ exc' = [kind |-> kind, at |-> di]
    /\ dpc' = "pool_exit"

\* for url in urls: response = requests.head(url)
Probe ==
    /\ dpc = "probe"
    /\ di <= Len(urls)
    /\ probed' = probed + 1
    /\ dpc' = "add_task"
    /\ UNCHANGED <<urls, di, exc, tasks, jobs, queue, files, done_event>>

\* ProbeFail with the failure noted and the loop going on to the next URL.
ProbeFail_Skips ==
    /\ dpc = "probe"
    /\ di <= Len(urls)
    /\ probed' = probed + 1
    /\ exc' = [kind |-> "probe", at |-> di]
    /\ di' = di + 1
    /\ UNCHANGED <<urls, dpc, tasks, jobs, queue, files, done_event>>

\* ProbeFail in a pool whose exit on an exception cancels the queued items
\* (shutdown(cancel_futures=True)).
ProbeFail_CancelsQueued ==
    /\ dpc = "probe"
    /\ di <= Len(urls)
    /\ probed' = probed + 1
    /\ Raise("probe")
    /\ queue' = <<>>
    /\ jobs' = [j \in DOMAIN jobs |->
                   IF jobs[j].pc = "queued"
                   THEN [jobs[j] EXCEPT !.pc = "failed"]
                   ELSE jobs[j]]
    /\ UNCHANGED <<urls, di, tasks, files, done_event>>

\* requests.head(url) raises (connection error): nothing catches it.
ProbeFail ==
    /\ dpc = "probe"
    /\ di <= Len(urls)
    /\ probed' = probed + 1
    /\ Raise("probe")
    /\ UNCHANGED <<urls, di, tasks, jobs, queue, files, done_event>>

\* The loop is out of URLs: the pool's with block ends.
LoopEnd ==
    /\ dpc = "probe"
    /\ di > Len(urls)
    /\ dpc' = "pool_exit"
    /\ UNCHANGED <<urls, di, probed, exc, tasks, jobs, queue, files, done_event>>

NewTask(url, response) ==
    [filename     |-> FilenameOf(url, response),
     contenttype  |-> ContentTypeOf(response),
     responsecode |-> ResponseCode(response),
     total        |-> DefaultTotal,
     completed    |-> 0,
     started      |-> FALSE]

\* AddTask going on to the next URL with no job submitted for this one.
AddTask_SkipsSubmit ==
    /\ dpc = "add_task"
    /\ LET response == HeadResponse(urls[di])
       IN  IF "ContentType" \in DOMAIN response.headers
           THEN /\ tasks' = Append(tasks, NewTask(urls[di], response))
                /\ dpc' = "probe"
                /\ di' = di + 1
                /\ exc' = exc
           ELSE /\ Raise("KeyError")
                /\ tasks' = tasks
                /\ di' = di
    /\ UNCHANGED <<urls, probed, jobs, queue, files, done_event>>

\* filename, contenttype, dest_path, responsecode, progress.add_task(...)
AddTask ==
    /\ dpc = "add_task"
    /\ LET response == HeadResponse(urls[di])
       IN  IF "ContentType" \in DOMAIN response.headers
           THEN /\ tasks' = Append(tasks, NewTask(urls[di], response))
                /\ dpc' = "submit"
                /\ exc' = exc
           ELSE /\ Raise("KeyError")
                /\ tasks' = tasks
    /\ UNCHANGED <<urls, di, probed, jobs, queue, files, done_event>>

NewJob(task_id, url, path) ==
    [task_id |-> task_id,
     url     |-> url,
     path    |-> path,
     pc      |-> "queued",
     sent    |-> 0,         \* bytes of the body iter_content has yielded
     fh      |-> "none",    \* dest_file: none, open, closed
     pos     |-> 0,         \* dest_file's position in the file
     buf     |-> <<>>,      \* dest_file's unflushed bytes
     late    |-> 0,         \* chunks written while done_event was set
     log     |-> <<>>]      \* lines logged to the console

\* pool.submit(copy_url, task_id, url, dest_path): the item is queued; the
\* pool has a free thread for it unless MaxWorkers jobs are running.
Submit ==
    /\ dpc = "submit"
    /\ jobs' = Append(jobs, NewJob(Len(tasks) - 1, urls[di],
                                   DestPath(urls[di], HeadResponse(urls[di]))))
    /\ queue' = Append(queue, Len(jobs) + 1)
    /\ di' = di + 1
    /\ dpc' = "probe"
    /\ UNCHANGED <<urls, probed, exc, tasks, files, done_event>>

\* PoolExit as shutdown(wait=False) would be: it does not join the workers.
PoolExit_NoWait ==
    /\ dpc = "pool_exit"
    /\ dpc' = "progress_exit"
    /\ UNCHANGED <<urls, di, probed, exc, tasks, jobs, queue, files, done_event>>

\* ThreadPoolExecutor.__exit__: shutdown(wait=True) joins the workers, which
\* first drain the queue.
PoolExit ==
    /\ dpc = "pool_exit"
    /\ queue = <<>>
    /\ Running = {}
    /\ dpc' = "progress_exit"
    /\ UNCHANGED <<urls, di, probed, exc, tasks, jobs, queue, files, done_event>>

\* Progress.__exit__: the display stops and download() returns or raises.
ProgressExit ==
    /\ dpc = "progress_exit"
    /\ dpc' = IF exc = NoExc THEN "returned" ELSE "raised"
    /\ UNCHANGED <<urls, di, probed, exc, tasks, jobs, queue, files, done_event>>

\* handle_sigint, while the process lives
handle_sigint ==
    /\ dpc \notin {"returned", "raised"}
    /\ done_event' = TRUE
    /\ UNCHANGED <<urls, dpc, di, probed, exc, tasks, jobs, queue, files>>

\* -------------------------------------------------------------- copy_url()

Body(url) ==
    Norm(<<Ext(Server(url).body.id, 0, Server(url).body.len)>>)

\* TotalOf that always takes the length of the buffered body.
TotalOf_FromBody(url) == Server(url).body.len

\* The total lines 46-49 give the task: the HEAD response's Content-Length
\* if it has one, else the length of the GET response's buffered body.
\* -1 stands for the ValueError of int().
TotalOf(url) ==
    LET meta == HeadResponse(url)
    IN  IF "ContentLength" \in DOMAIN meta.headers
        THEN ParseInt(meta.headers.ContentLength)
        ELSE Server(url).body.len

SetJob(j, r) == jobs' = [jobs EXCEPT ![j] = r]

\* StartJob in a pool that starts a thread for every item.
StartJob_Unbounded(j) ==
    /\ queue # <<>>
    /\ j = Head(queue)
    /\ queue' = Tail(queue)
    /\ SetJob(j, [jobs[j] EXCEPT !.pc = "request"])
    /\ UNCHANGED <<urls, dpc, di, probed, exc, tasks, files, done_event>>

\* A pool thread takes the oldest work item; the pool has at most
\* MaxWorkers threads, each running one item at a time.
StartJob(j) ==
    /\ queue # <<>>
    /\ j = Head(queue)
    /\ Cardinality(Running) < MaxWorkers
    /\ queue' = Tail(queue)
    /\ SetJob(j, [jobs[j] EXCEPT !.pc = "request"])
    /\ UNCHANGED <<urls, dpc, di, probed, exc, tasks, files, done_event>>

\* Request with start_task called where the total should be set.
Request_StartsBeforeTotal(j) ==
    /\ jobs[j].pc = "request"
    /\ TotalOf(jobs[j].url) >= 0
    /\ tasks' = [tasks EXCEPT ![jobs[j].task_id + 1].started = TRUE]
    /\ SetJob(j, [jobs[j] EXCEPT !.pc = "open",
                                 !.log = Append(@, "Requesting")])
    /\ UNCHANGED <<urls, dpc, di, probed, exc, queue, files, done_event>>

\* Lines 43-49: log, GET, HEAD, progress.update(task_id, total=...).
Request(j) ==
    /\ jobs[j].pc = "request"
    /\ TotalOf(jobs[j].url) >= 0
    /\ tasks' = [tasks EXCEPT ![jobs[j].task_id + 1].total = TotalOf(jobs[j].url)]
    /\ SetJob(j, [jobs[j] EXCEPT !.pc = "open",
                                 !.log = Append(@, "Requesting")])
    /\ UNCHANGED <<urls, dpc, di, probed, exc, queue, files, done_event>>

\* RequestFail with the exception re-raised in download().
RequestFail_Propagates(j) ==
    /\ jobs[j].pc = "request"
    /\ SetJob(j, [jobs[j] EXCEPT !.pc = "failed",
                                 !.log = Append(@, "Requesting")])
    /\ exc' = [kind |-> "job", at |-> j]
    /\ dpc' = "pool_exit"
    /\ UNCHANGED <<urls, di, probed, tasks, queue, files, done_event>>

\* Lines 43-49 raise: a request fails, or int() rejects the header.  The
\* work item keeps the exception; the thread goes on to the next item.
RequestFail(j) ==
    /\ jobs[j].pc = "request"
    /\ SetJob(j, [jobs[j] EXCEPT !.pc = "failed",
                                 !.log = Append(@, "Requesting")])
    /\ UNCHANGED <<urls, dpc, di, probed, exc, tasks, queue, files, done_event>>

NoFile == [content |-> <<>>, opener |-> 0, alone |-> TRUE, writer |-> 0]

FileAt(path) == IF path \in DOMAIN files THEN files[path] ELSE NoFile

\* The jobs other than j that hold path open.
OtherHolders(j, path) ==
    {k \in DOMAIN jobs : k # j /\ jobs[k].path = path /\ jobs[k].fh = "open"}

\* Opened for a mode that keeps the file's bytes ("r+b").
Opened_NoTruncate(j, path) ==
    [FileAt(path) EXCEPT !.opener = j,
                         !.alone = (OtherHolders(j, path) = {})]

\* open(path, "wb") creates the file or truncates it to nothing.
Opened(j, path) ==
    [FileAt(path) EXCEPT !.content = <<>>,
                         !.opener = j,
                         !.alone = (OtherHolders(j, path) = {})]

\* OpenFile without the call of start_task.
OpenFile_NoStart(j) ==
    /\ jobs[j].pc = "open"
    /\ files' = (jobs[j].path :> Opened(j, jobs[j].path)) @@ files
    /\ SetJob(j, [jobs[j] EXCEPT !.pc = "stream", !.fh = "open"])
    /\ UNCHANGED <<urls, dpc, di, probed, exc, tasks, queue, done_event>>

\* Lines 50-51: open(path, "wb"), progress.start_task(task_id).
OpenFile(j) ==
    /\ jobs[j].pc = "open"
    /\ files' = (jobs[j].path :> Opened(j, jobs[j].path)) @@ files
    /\ tasks' = [tasks EXCEPT ![jobs[j].task_id + 1].started = TRUE]
    /\ SetJob(j, [jobs[j] EXCEPT !.pc = "stream", !.fh = "open"])
    /\ UNCHANGED <<urls, dpc, di, probed, exc, queue, done_event>>

\* open() raises (no such directory, a directory in the way).
OpenFail(j) ==
    /\ jobs[j].pc = "open"
    /\ SetJob(j, [jobs[j] EXCEPT !.pc = "failed"])
    /\ UNCHANGED <<urls, dpc, di, probed, exc, tasks, queue, files, done_event>>

\* The file after job j's raw write of data at offset pos.
RawWrite(f, j, pos, data) ==
    IF data = <<>> THEN f
    ELSE [f EXCEPT !.content = WriteAt(@, pos, data), !.writer = j]

\* BufferedWriter.write(data) on handle [pos, buf] over file f: data that
\* fits the buffer's free space is kept; otherwise the buffer is flushed and
\* data longer than the buffer is written through.
BufferedWrite(f, j, pos, buf, data) ==
    LET n       == ContentLen(data)
        held    == ContentLen(buf)
        flushed == RawWrite(f, j, pos, buf)
    IN  IF n <= BufferSize - held
        THEN [file |-> f, pos |-> pos, buf |-> Norm(buf \o data)]
        ELSE IF n > BufferSize
        THEN [file |-> RawWrite(flushed, j, pos + held, data),
              pos  |-> pos + held + n,
              buf  |-> <<>>]
        ELSE [file |-> flushed, pos |-> pos + held, buf |-> data]

\* The next chunk of iter_content(ChunkSize).
NextChunk(job) ==
    LET left == Server(job.url).body.len - job.sent
        n    == IF left < ChunkSize THEN left ELSE ChunkSize
    IN  <<Ext(Server(job.url).body.id, job.sent, n)>>

MoreChunks(job) == job.sent < Server(job.url).body.len

\* WriteChunk advancing the first task, whichever job writes.
WriteChunk_AdvancesFirst(j) ==
    /\ jobs[j].pc = "stream"
    /\ MoreChunks(jobs[j])
    /\ LET data == NextChunk(jobs[j])
           w    == BufferedWrite(files[jobs[j].path], j, jobs[j].pos,
                                 jobs[j].buf, data)
       IN  /\ files' = [files EXCEPT ![jobs[j].path] = w.file]
           /\ tasks' = [tasks EXCEPT ![1].completed = @ + ContentLen(data)]
           /\ SetJob(j, [jobs[j] EXCEPT
                          !.pc = "check",
                          !.sent = @ + ContentLen(data),
                          !.pos = w.pos,
                          !.buf = w.buf,
                          !.late = @ + (IF done_event THEN 1 ELSE 0)])
    /\ UNCHANGED <<urls, dpc, di, probed, exc, queue, done_event>>

\* WriteChunk in a loop that tests done_event before it writes.
WriteChunk_ChecksFirst(j) ==
    /\ jobs[j].pc = "stream"
    /\ MoreChunks(jobs[j])
    /\ IF done_event
       THEN /\ files' = [files EXCEPT
                           ![jobs[j].path] = RawWrite(@, j, jobs[j].pos,
                                                      jobs[j].buf)]
            /\ SetJob(j, [jobs[j] EXCEPT !.pc = "aborted",
                                         !.fh = "closed",
                                         !.pos = @ + ContentLen(jobs[j].buf),
                                         !.buf = <<>>])
            /\ tasks' = tasks
       ELSE LET data == NextChunk(jobs[j])
                w    == BufferedWrite(files[jobs[j].path], j, jobs[j].pos,
                                      jobs[j].buf, data)
            IN  /\ files' = [files EXCEPT ![jobs[j].path] = w.file]
                /\ tasks' = [tasks EXCEPT
                               ![jobs[j].task_id + 1].completed = @ + ContentLen(data)]
                /\ SetJob(j, [jobs[j] EXCEPT
                               !.pc = "check",
                               !.sent = @ + ContentLen(data),
                               !.pos = w.pos,
                               !.buf = w.buf])
    /\ UNCHANGED <<urls, dpc, di, probed, exc, queue, done_event>>

\* Lines 52-54: the next chunk, dest_file.write(data),
\* progress.update(task_id, advance=len(data)).
WriteChunk(j) ==
    /\ jobs[j].pc = "stream"
    /\ MoreChunks(jobs[j])
    /\ LET data == NextChunk(jobs[j])
           w    == BufferedWrite(files[jobs[j].path], j, jobs[j].pos,
                                 jobs[j].buf, data)
       IN  /\ files' = [files EXCEPT ![jobs[j].path] = w.file]
           /\ tasks' = [tasks EXCEPT
                          ![jobs[j].task_id + 1].completed = @ + ContentLen(data)]
           /\ SetJob(j, [jobs[j] EXCEPT
                          !.pc = "check",
                          !.sent = @ + ContentLen(data),
                          !.pos = w.pos,
                          !.buf = w.buf,
                          !.late = @ + (IF done_event THEN 1 ELSE 0)])
    /\ UNCHANGED <<urls, dpc, di, probed, exc, queue, done_event>>

\* The with block's exit: dest_file.close() flushes the buffer.
Closed(f, j, job) == RawWrite(f, j, job.pos, job.buf)

\* CloseJob for a file closed by a call after the loop instead of a with
\* block: an early return or an exception leaves the handle open.
CloseJob_OnlyAtEnd(j, pc, log) ==
    IF pc = "completed"
    THEN /\ files' = [files EXCEPT
                        ![jobs[j].path] = Closed(@, j, jobs[j])]
         /\ SetJob(j, [jobs[j] EXCEPT !.pc = pc,
                                      !.fh = "closed",
                                      !.pos = @ + ContentLen(jobs[j].buf),
                                      !.buf = <<>>,
                                      !.log = @ \o log])
    ELSE /\ files' = files
         /\ SetJob(j, [jobs[j] EXCEPT !.pc = pc, !.log = @ \o log])

CloseJob(j, pc, log) ==
    /\ files' = [files EXCEPT
                   ![jobs[j].path] = Closed(@, j, jobs[j])]
    /\ SetJob(j, [jobs[j] EXCEPT !.pc = pc,
                                 !.fh = "closed",
                                 !.pos = @ + ContentLen(jobs[j].buf),
                                 !.buf = <<>>,
                                 !.log = @ \o log])

\* CheckCancel that clears done_event as it returns.
CheckCancel_Clears(j) ==
    /\ jobs[j].pc = "check"
    /\ IF done_event
       THEN /\ CloseJob(j, "aborted", <<>>)
            /\ done_event' = FALSE
       ELSE /\ SetJob(j, [jobs[j] EXCEPT !.pc = "stream"])
            /\ files' = files
            /\ done_event' = done_event
    /\ UNCHANGED <<urls, dpc, di, probed, exc, tasks, queue>>

\* CheckCancel that never looks at done_event.
CheckCancel_Ignores(j) ==
    /\ jobs[j].pc = "check"
    /\ SetJob(j, [jobs[j] EXCEPT !.pc = "stream"])
    /\ UNCHANGED <<urls, dpc, di, probed, exc, tasks, queue, files, done_event>>

\* Lines 55-56: if done_event.is_set(): return
CheckCancel(j) ==
    /\ jobs[j].pc = "check"
    /\ IF done_event
       THEN CloseJob(j, "aborted", <<>>)
       ELSE /\ SetJob(j, [jobs[j] EXCEPT !.pc = "stream"])
            /\ files' = files
    /\ UNCHANGED <<urls, dpc, di, probed, exc, tasks, queue, done_event>>

\* The body is exhausted: the file is closed, line 57 logs the download.
Finish(j) ==
    /\ jobs[j].pc = "stream"
    /\ ~MoreChunks(jobs[j])
    /\ CloseJob(j, "completed", <<"Downloaded">>)
    /\ UNCHANGED <<urls, dpc, di, probed, exc, tasks, queue, done_event>>

\* iter_content or write raises mid-stream: the with block closes the file
\* and the exception ends the job.
StreamFail(j) ==
    /\ jobs[j].pc = "stream"
    /\ MoreChunks(jobs[j])
    /\ CloseJob(j, "failed", <<>>)
    /\ UNCHANGED <<urls, dpc, di, probed, exc, tasks, queue, done_event>>

\* ------------------------------------------------------ the specification

Next ==
    \/ Probe
    \/ ProbeFail
    \/ LoopEnd
    \/ AddTask
    \/ Submit
    \/ PoolExit
    \/ ProgressExit
    \/ handle_sigint
    \/ \E j \in DOMAIN jobs : StartJob(j)
    \/ \E j \in DOMAIN jobs : Request(j)
    \/ \E j \in DOMAIN jobs : RequestFail(j)
    \/ \E j \in DOMAIN jobs : OpenFile(j)
    \/ \E j \in DOMAIN jobs : OpenFail(j)
    \/ \E j \in DOMAIN jobs : WriteChunk(j)
    \/ \E j \in DOMAIN jobs : CheckCancel(j)
    \/ \E j \in DOMAIN jobs : Finish(j)
    \/ \E j \in DOMAIN jobs : StreamFail(j)

Spec == Init /\ [][Next]_vars

\* The calling thread and the pool's threads keep running: download() takes
\* its next step, and some worker takes the next step of a job that has one.
\* A request that can answer does answer or raise; nothing obliges a request
\* to fail or a signal to arrive.
Fairness ==
    /\ WF_vars(Probe)
    /\ WF_vars(LoopEnd)
    /\ WF_vars(AddTask)
    /\ WF_vars(Submit)
    /\ WF_vars(PoolExit)
    /\ WF_vars(ProgressExit)
    /\ WF_vars(\E j \in DOMAIN jobs : StartJob(j))
    /\ WF_vars(\E j \in DOMAIN jobs : Request(j))
    /\ WF_vars(\E j \in DOMAIN jobs : OpenFile(j))
    /\ WF_vars(\E j \in DOMAIN jobs : WriteChunk(j))
    /\ WF_vars(\E j \in DOMAIN jobs : CheckCancel(j))
    /\ WF_vars(\E j \in DOMAIN jobs : Finish(j))

FairSpec == Spec /\ Fairness

\* ------------------------------------------------------------- the claims

\* C1: at every instant at most 4 copy_url jobs are running, and a queued
\* job leaves the queue only in a state where fewer than 4 are running, i.e.
\* a job submitted while 4 run starts only after one of them has terminated.
C1_AtMostFourRunning ==
    /\ [](Cardinality(Running) <= 4)
    /\ [][\A j \in DOMAIN jobs :
             (jobs[j].pc = "queued" /\ jobs'[j].pc # "queued")
                 => Cardinality(Running) < 4]_vars

\* Four jobs are running and a fifth is waiting in the queue.
C1_Witness ==
    /\ Cardinality(Running) = 4
    /\ queue # <<>>

\* C2: once done_event is set every copy_url writes at most one more chunk
\* (and advances its counter at most once more), and after that chunk it
\* does not go back for another: it is at the check or has returned.
C2_OneChunkAfterCancel ==
    \A j \in DOMAIN jobs :
        /\ jobs[j].late <= 1
        /\ jobs[j].late = 1 => jobs[j].pc \in {"check", "aborted"}

\* A job wrote one chunk after the signal and returned with body left over.
C2_Witness ==
    \E j \in DOMAIN jobs :
        /\ done_event
        /\ jobs[j].late = 1
        /\ jobs[j].pc = "aborted"
        /\ MoreChunks(jobs[j])

\* C3: every task's transferred-byte counter never decreases from one step
\* to the next and never exceeds the task's total.
C3_CounterWithinTotal ==
    /\ [][\A t \in DOMAIN tasks : tasks'[t].completed >= tasks[t].completed]_vars
    /\ [](\A t \in DOMAIN tasks : tasks[t].completed <= tasks[t].total)

\* The total copy_url has given job j's task, once it has given one: the job
\* is past lines 46-49.
HasSetTotal(j) ==
    \/ jobs[j].pc = "open"
    \/ tasks[jobs[j].task_id + 1].started

\* C4: the total copy_url sets on its task is the integer value of the HEAD
\* response's Content-Length header when the response has one, and the byte
\* length of the buffered body otherwise.
C4_TotalFromHeadOrBody ==
    \A j \in DOMAIN jobs :
        HasSetTotal(j) =>
            LET s     == Server(jobs[j].url)
                total == tasks[jobs[j].task_id + 1].total
            IN  /\ "ContentLength" \in DOMAIN s.headers
                       => total = ParseInt(s.headers.ContentLength)
                /\ "ContentLength" \notin DOMAIN s.headers
                       => total = s.body.len
                /\ s = ServerA => total = ChunkSize + ShortLen
                /\ s = ServerC => total = ShortLen

\* One run holds a task whose total came from a Content-Length that differs
\* from the body's length, and one whose total came from the buffered body.
C4_Witness ==
    \E j, k \in DOMAIN jobs :
        /\ tasks[jobs[j].task_id + 1].started
        /\ "ContentLength" \in DOMAIN Server(jobs[j].url).headers
        /\ tasks[jobs[j].task_id + 1].total # Server(jobs[j].url).body.len
        /\ tasks[jobs[k].task_id + 1].started
        /\ "ContentLength" \notin DOMAIN Server(jobs[k].url).headers
        /\ tasks[jobs[k].task_id + 1].total = ShortLen

\* The positions whose probe has returned a response.
Answered ==
    {i \in 1..probed : ~(exc.kind = "probe" /\ exc.at = i)}

\* download() is done with position i: the loop has moved on or has ended.
Past(i) ==
    \/ di > i
    \/ dpc \in {"pool_exit", "progress_exit", "returned", "raised"}

Exited == dpc \in {"returned", "raised"}

\* The jobs writing to job j's path.
SamePath(j) == {k \in DOMAIN jobs : jobs[k].path = jobs[j].path}

\* C5: every URL whose probe returned a response gets exactly one task and
\* exactly one job, whatever its status code; the status only colours the
\* indicator, and a job that completes has written the body to its file.
C5_OneTaskOneJobPerResponse ==
    LET n == Cardinality({i \in Answered : Past(i)})
    IN  /\ Len(jobs) = n
        /\ Len(tasks) \in {n, n + 1}
        /\ \A k \in 1..n :
              /\ jobs[k].url = urls[k]
              /\ jobs[k].task_id = k - 1
              /\ tasks[k].responsecode[2] = Server(urls[k]).status
              /\ tasks[k].responsecode[1] = "green"
                     <=> Server(urls[k]).status = 200
              /\ (jobs[k].pc = "completed" /\ SamePath(k) = {k})
                     => files[jobs[k].path].content = Body(urls[k])

\* C5 for the responses that carry a Content-Type header.
C5_WithContentType ==
    LET n == Cardinality({i \in Answered : Past(i) /\ ~(exc.kind = "KeyError" /\ exc.at = i)})
    IN  /\ Len(jobs) = n
        /\ Len(tasks) \in {n, n + 1}
        /\ \A k \in 1..n :
              /\ jobs[k].url = urls[k]
              /\ jobs[k].task_id = k - 1
              /\ (jobs[k].pc = "completed" /\ SamePath(k) = {k})
                     => files[jobs[k].path].content = Body(urls[k])

\* The path's jobs, when they are two jobs of different URLs that have both
\* run to completion.
BothCompleted(p) ==
    LET W == {j \in DOMAIN jobs : jobs[j].path = p}
    IN  /\ Cardinality(W) = 2
        /\ \A j \in W : jobs[j].pc = "completed"
        /\ \E j, k \in W : jobs[j].url # jobs[k].url

\* C6 as stated: when two URLs derive the same path and both jobs complete,
\* the file holds exactly the body of whichever job wrote to it last.
C6_LastWriterWins ==
    \A p \in DOMAIN files :
        BothCompleted(p) =>
            files[p].content = Body(jobs[files[p].writer].url)

\* C6 amended: when two URLs derive the same path and both jobs complete,
\* and the job that opened the file last opened it only after the other had
\* closed it, the file holds exactly the body of the job that opened last.
C6_LastOpenerWinsIfAlone ==
    \A p \in DOMAIN files :
        (BothCompleted(p) /\ files[p].alone) =>
            files[p].content = Body(jobs[files[p].opener].url)

\* Two jobs of different bodies wrote the same path one after the other.
C6_Witness ==
    \E p \in DOMAIN files :
        /\ BothCompleted(p)
        /\ files[p].alone
        /\ files[p].opener = 2
        /\ jobs[1].url = ServerA.url
        /\ jobs[2].url = ServerB.url

\* C7: download() has returned or raised only when every job it submitted
\* has terminated: none is queued or running.
C7_ExitAfterAllJobs ==
    Exited =>
        /\ queue = <<>>
        /\ \A j \in DOMAIN jobs :
              jobs[j].pc \in {"completed", "aborted", "failed"}

\* download() has raised after waiting for a job it had submitted.
C7_Witness ==
    /\ dpc = "raised"
    /\ \E j \in DOMAIN jobs : jobs[j].pc = "completed"

\* C8: a failed probe at position k is not caught and aborts the run: no
\* task and no job exists for position k or a later one, and no later URL
\* is probed.
C8_ProbeFailureAborts ==
    exc.kind = "probe" =>
        /\ dpc \in {"pool_exit", "progress_exit", "raised"}
        /\ di = exc.at
        /\ probed = exc.at
        /\ Len(tasks) = exc.at - 1
        /\ Len(jobs) = exc.at - 1

\* The probe of a URL in the middle of the list failed and download() raised.
C8_Witness ==
    /\ exc.kind = "probe"
    /\ exc.at > 1
    /\ exc.at < Len(urls)
    /\ dpc = "raised"

Live == {"request", "open", "stream", "check"}

\* Nothing holds the pool or download() back: the oldest queued job can
\* start when fewer than 4 run, the loop can probe and submit, the pool's
\* exit can proceed once every job has terminated, and download() has not
\* exited on a job that is still to run.
CanGoOn ==
    /\ (queue # <<>>
          /\ Cardinality({k \in DOMAIN jobs : jobs[k].pc \in Live}) < 4)
          => ENABLED StartJob(Head(queue))
    /\ (dpc = "probe" /\ di <= Len(urls)) => ENABLED Probe
    /\ dpc = "submit" => ENABLED Submit
    /\ (dpc = "pool_exit"
          /\ \A k \in DOMAIN jobs :
                jobs[k].pc \in {"completed", "aborted", "failed"})
          => ENABLED PoolExit
    /\ Exited =>
          \A k \in DOMAIN jobs :
              jobs[k].pc \in {"completed", "aborted", "failed"}

\* C9: a failure inside one copy_url changes no other job, no other task's
\* total, counter or state, and nothing of download()'s loop; and with a
\* failed job around the loop still probes and submits, the pool still
\* starts the queued jobs, and download() exits only once every other job
\* has run to its termination.
C9_FetchFailureIsLocal ==
    /\ [][\A j \in DOMAIN jobs :
             (jobs[j].pc # "failed" /\ jobs'[j].pc = "failed") =>
                 /\ \A k \in DOMAIN jobs \ {j} : jobs'[k] = jobs[k]
                 /\ \A t \in DOMAIN tasks :
                       t # jobs[j].task_id + 1 => tasks'[t] = tasks[t]
                 /\ UNCHANGED <<dpc, di, probed, exc, queue, done_event>>]_vars
    /\ []((\E j \in DOMAIN jobs : jobs[j].pc = "failed") => CanGoOn)

\* The first job failed; a later one was submitted and ran to completion.
C9_Witness ==
    /\ Len(jobs) >= 2
    /\ jobs[1].pc = "failed"
    /\ \E k \in DOMAIN jobs : k > 1 /\ jobs[k].pc = "completed"
    /\ dpc = "returned"

\* C10: done_event is clear at the start, is set only by handle_sigint, and
\* once set stays set through every step, further interrupts included.
C10_FlagSetOnceForGood ==
    /\ done_event = FALSE
    /\ [][/\ done_event => done_event'
          /\ done_event' # done_event => handle_sigint
          /\ handle_sigint => done_event']_vars

\* The flag was set, a job saw it and returned, and download() returned.
C10_Witness ==
    /\ done_event
    /\ \E j \in DOMAIN jobs : jobs[j].pc = "aborted"
    /\ dpc = "returned"

\* C11: a task's filename is the URL's final path segment with '.txt'
\* appended if and only if the probe's content type (the header value up to
\* its first ';') is exactly text/plain; otherwise it is the final path
\* segment unchanged.  The job's destination is that name in the directory.
C11_TxtIffTextPlain ==
    \A k \in DOMAIN tasks :
        LET seg == AfterLast(urls[k], "/")
            hdr == Server(urls[k]).headers.ContentType
        IN  /\ tasks[k].contenttype = <<"text/plain">>
                   => tasks[k].filename = seg \o <<".txt">>
            /\ tasks[k].contenttype # <<"text/plain">>
                   => tasks[k].filename = seg
            /\ hdr \in {<<"text/plain">>, <<"text/plain", ";", " charset=utf-8">>}
                   => tasks[k].contenttype = <<"text/plain">>
            /\ hdr \in {<<"text/plain ", ";", " charset=utf-8">>, <<"TEXT/PLAIN">>,
                        <<"text/html">>, <<"application/octet-stream">>}
                   => tasks[k].filename = seg
            /\ urls[k] = ServerC.url => tasks[k].filename = <<"c", ".txt">>
            /\ urls[k] = ServerA.url => tasks[k].filename = <<"a">>
            /\ k \in DOMAIN jobs
                   => jobs[k].path = <<".", "/">> \o tasks[k].filename

\* One run registered text/plain with a parameter as a .txt file and the
\* near miss "text/plain " under the bare segment.
C11_Witness ==
    /\ Len(tasks) >= 4
    /\ tasks[2].filename = <<"2", ".txt">>
    /\ tasks[3].filename = <<"3">>
    /\ tasks[3].contenttype = <<"text/plain ">>
    /\ tasks[4].filename = <<"4">>

\* The lifecycle state of task k, given the tasks ts and the jobs js: its
\* job's outcome once the job has completed or returned on cancellation,
\* else active once started, else pending.  A job that fails leaves its task
\* where it was.
TaskState(ts, js, k) ==
    IF k \in DOMAIN js /\ js[k].pc = "completed" THEN "completed"
    ELSE IF k \in DOMAIN js /\ js[k].pc = "aborted" THEN "aborted"
    ELSE IF ts[k].started THEN "active"
    ELSE "pending"

\* C12: a task is registered pending and its state changes only from
\* pending to active, from active to completed, or from active to aborted,
\* the last only when its copy_url sees done_event set at the check inside
\* the streaming loop; it never returns to pending and never leaves
\* completed or aborted.
C12_TaskLifecycle ==
    [][/\ \A k \in DOMAIN tasks :
             LET a == TaskState(tasks, jobs, k)
                 b == TaskState(tasks', jobs', k)
             IN  \/ a = b
                 \/ a = "pending" /\ b = "active"
                 \/ a = "active" /\ b = "completed"
                 \/ /\ a = "active" /\ b = "aborted"
                    /\ done_event
                    /\ jobs[k].pc = "check"
       /\ \A k \in DOMAIN tasks' \ DOMAIN tasks :
             TaskState(tasks', jobs', k) = "pending"]_vars

\* One task ended completed and another aborted with body left to stream.
C12_Witness ==
    \E k, m \in DOMAIN tasks :
        /\ TaskState(tasks, jobs, k) = "completed"
        /\ TaskState(tasks, jobs, m) = "aborted"
        /\ MoreChunks(jobs[m])

\* copy_url is past lines 46-49 for task k.
TotalGiven(k) ==
    /\ k \in DOMAIN jobs
    /\ jobs[k].pc \notin {"queued", "request"}
    /\ jobs[k].log # <<>>
    /\ tasks[k].total = TotalOf(urls[k])

\* C13: a started task has had its total set by its copy_url, and a task
\* that is not started has no byte counted.
C13_StartedAfterTotal ==
    \A k \in DOMAIN tasks :
        /\ tasks[k].started => TotalGiven(k)
        /\ ~tasks[k].started => tasks[k].completed = 0

\* A task has its total set and is not started yet; another is started.
C13_Witness ==
    \E k, m \in DOMAIN tasks :
        /\ TotalGiven(k)
        /\ ~tasks[k].started
        /\ tasks[k].total # DefaultTotal
        /\ tasks[m].started
        /\ tasks[m].completed > 0

\* The log of job j holds the line of line 57.
LoggedDownloaded(j) ==
    \E n \in DOMAIN jobs[j].log : jobs[j].log[n] = "Downloaded"

\* C14: a copy_url that has returned after writing every chunk of its body
\* has logged "Downloaded", also when done_event was set while it ran.
C14_WholeBodyIsLogged ==
    \A j \in DOMAIN jobs :
        (jobs[j].pc \in {"completed", "aborted"} /\ ~MoreChunks(jobs[j]))
            => LoggedDownloaded(j)

\* C15: a step that changes the total or the counter of task k is a step
\* of the one job submitted with k's task id, at lines 46-49 or 52-54, and
\* changes no other task; download() moves in no such step and never
\* changes a registered task; no two jobs carry the same task id.
C15_OnlyOwnerWritesTask ==
    [][/\ \A k \in DOMAIN tasks :
             tasks'[k] # tasks[k] =>
                 /\ k \in DOMAIN jobs
                 /\ jobs[k].task_id = k - 1
                 /\ jobs[k].pc \in {"request", "open", "stream"}
                 /\ jobs'[k] # jobs[k]
                 /\ \A m \in DOMAIN jobs \ {k} : jobs'[m] = jobs[m]
                 /\ \A m \in DOMAIN tasks \ {k} : tasks'[m] = tasks[m]
                 /\ <<dpc, di, probed, exc>>' = <<dpc, di, probed, exc>>
                 /\ tasks'[k].filename = tasks[k].filename
                 /\ tasks'[k].contenttype = tasks[k].contenttype
                 /\ tasks'[k].responsecode = tasks[k].responsecode
       /\ \A j, m \in DOMAIN jobs' :
             jobs'[j].task_id = jobs'[m].task_id => j = m]_vars

\* Two jobs are streaming at once and each has advanced its own task.
C15_Witness ==
    \E k, m \in DOMAIN jobs :
        /\ k # m
        /\ jobs[k].pc \in {"stream", "check"}
        /\ jobs[m].pc \in {"stream", "check"}
        /\ tasks[k].completed = jobs[k].sent
        /\ tasks[m].completed = jobs[m].sent
        /\ jobs[k].sent > 0
        /\ jobs[m].sent > jobs[k].sent

\* Task k is the one registered for the k-th URL.
TaskOfUrl(k) ==
    LET response == HeadResponse(urls[k])
    IN  /\ tasks[k].filename = FilenameOf(urls[k], response)
        /\ tasks[k].contenttype = ContentTypeOf(response)
        /\ tasks[k].responsecode = ResponseCode(response)

\* Job k is the one submitted for the k-th URL with the k-th task's id.
JobOfUrl(k) ==
    /\ jobs[k].url = urls[k]
    /\ jobs[k].task_id = k - 1
    /\ jobs[k].path = DestPath(urls[k], HeadResponse(urls[k]))

\* C16: tasks are registered in the order of the URLs: the k-th task and the
\* k-th job are those of the k-th URL, and the HEAD request for URL j is sent
\* only when every URL before j has its task registered and its job
\* submitted (the requests sent never number more than the jobs submitted
\* plus one), whatever state the jobs are in.
C16_RegisteredInUrlOrder ==
    /\ Len(jobs) <= Len(tasks)
    /\ Len(tasks) <= probed
    /\ probed <= Len(jobs) + 1
    /\ probed \in {di - 1, di}
    /\ \A k \in DOMAIN tasks : TaskOfUrl(k)
    /\ \A k \in DOMAIN jobs : JobOfUrl(k)

\* The third URL has been probed while the second URL's job is over and the
\* first URL's job has only just been taken by a worker.
C16_Witness ==
    /\ dpc = "add_task"
    /\ di = 3
    /\ Len(tasks) = 2
    /\ jobs[1].pc = "request"
    /\ jobs[2].pc = "completed"

\* C17: a copy_url that has terminated holds no open file: if it had opened
\* its file the file is closed and nothing is left in the handle's buffer.
\* After a return on cancellation the file is still there; when no other
\* job has had the path open since this one opened it, it holds exactly the
\* bytes streamed so far.
C17_FileClosedOnEveryExit ==
    \A j \in DOMAIN jobs :
        jobs[j].pc \in Terminated =>
            /\ jobs[j].fh # "open"
            /\ jobs[j].buf = <<>>
            /\ tasks[j].started => jobs[j].fh = "closed"
            /\ jobs[j].pc \in {"completed", "aborted"} => jobs[j].fh = "closed"
            /\ jobs[j].pc = "aborted" =>
                  /\ jobs[j].path \in DOMAIN files
                  /\ jobs[j].pos = jobs[j].sent
                  /\ (files[jobs[j].path].opener = j /\ files[jobs[j].path].alone)
                        => files[jobs[j].path].content
                               = Take(Body(jobs[j].url), jobs[j].sent)

\* One job returned on cancellation with part of its body in the file and
\* another failed while streaming: neither holds its file open.
C17_Witness ==
    \E j, k \in DOMAIN jobs :
        /\ jobs[j].pc = "aborted"
        /\ MoreChunks(jobs[j])
        /\ jobs[j].sent > 0
        /\ files[jobs[j].path].content = Take(Body(jobs[j].url), jobs[j].sent)
        /\ jobs[j].fh = "closed"
        /\ jobs[k].pc = "failed"
        /\ jobs[k].fh = "closed"

\* The length of the first chunk iter_content yields for url.
FirstChunk(url) ==
    IF Server(url).body.len < ChunkSize THEN Server(url).body.len ELSE ChunkSize

\* C18: done_event is read only after a chunk is written.  download() never
\* reads it: when download() has returned, every URL has been probed and its
\* job submitted, with the flag set or not.  No copy_url reads it before its
\* first chunk: a job that has ended without failing has logged its request
\* and closed the file it opened, none has returned on cancellation with
\* nothing written, and with the flag set a job that has written nothing
\* yet still truncates its file and writes its first chunk, and after that
\* chunk it returns at the check.
C18_FlagReadOnlyAfterChunk ==
    /\ [](/\ dpc = "returned" =>
                /\ probed = Len(urls)
                /\ Len(tasks) = Len(urls)
                /\ Len(jobs) = Len(urls)
          /\ \A j \in DOMAIN jobs :
                /\ jobs[j].pc \in {"completed", "aborted"} =>
                      /\ jobs[j].log # <<>>
                      /\ jobs[j].fh = "closed"
                      /\ jobs[j].sent >= FirstChunk(jobs[j].url)
                /\ jobs[j].pc = "aborted" => jobs[j].sent > 0)
    /\ [][done_event =>
             \A j \in DOMAIN jobs :
                 /\ (jobs[j].pc = "request" /\ jobs'[j].pc = "open") =>
                       jobs'[j].log = <<"Requesting">>
                 /\ (jobs[j].pc = "open" /\ jobs'[j].pc = "stream") =>
                       /\ files'[jobs[j].path].content = <<>>
                       /\ files'[jobs[j].path].opener = j
                 /\ (jobs[j].sent = 0 /\ jobs'[j].sent # 0) =>
                       /\ jobs'[j].sent = FirstChunk(jobs[j].url)
                       /\ jobs'[j].late = 1
                       /\ jobs'[j].pc = "check"
                 /\ (jobs[j].pc = "check" /\ jobs'[j] # jobs[j]) =>
                       /\ jobs'[j].pc = "aborted"
                       /\ jobs'[j].sent = jobs[j].sent]_vars

\* download() has returned with the flag set, every URL probed and
\* submitted, and both jobs wrote their first chunk with the flag set and
\* returned at the check, one of them with body left over.
C18_Witness ==
    /\ done_event
    /\ dpc = "returned"
    /\ Len(jobs) = 2
    /\ \A j \in DOMAIN jobs :
          /\ jobs[j].pc = "aborted"
          /\ jobs[j].late = 1
          /\ jobs[j].sent = FirstChunk(jobs[j].url)
    /\ MoreChunks(jobs[1])

\* No request has failed: no probe raised and no job ended in an exception.
NoFailure ==
    /\ exc.kind # "probe"
    /\ \A j \in DOMAIN jobs : jobs[j].pc # "failed"

\* Every task is completed or aborted.
AllTasksOver ==
    \A k \in DOMAIN tasks :
        TaskState(tasks, jobs, k) \in {"completed", "aborted"}

\* C19: with the threads scheduled fairly and no request ever failing,
\* download() eventually returns, and when it has returned every task is
\* completed or aborted.
C19_ReturnsWithTasksOver ==
    ([]NoFailure) =>
        /\ <>(dpc = "returned")
        /\ [](dpc = "returned" => AllTasksOver)

\* With the threads scheduled fairly download() always comes to its end, by
\* returning or by raising, with the flag set or not; every job it submitted
\* has terminated by then, and every task whose job did not fail is
\* completed or aborted.
EventuallyExits ==
    /\ <>Exited
    /\ [](Exited =>
             \A k \in DOMAIN tasks :
                 /\ k \in DOMAIN jobs
                 /\ jobs[k].pc \in Terminated
                 /\ jobs[k].pc # "failed" =>
                       TaskState(tasks, jobs, k) \in {"completed", "aborted"})

\* C20: when requests.head raises for URL n, the jobs submitted for the
\* URLs before n are kept: none is dropped from the pool or ended without
\* running, the pool's with block ends only when each of them has
\* terminated, and only after that has download() raised.
C20_ProbeFailureWaitsForJobs ==
    /\ [](exc.kind = "probe" =>
             /\ Len(jobs) = exc.at - 1
             /\ \A j \in DOMAIN jobs :
                   /\ jobs[j].pc = "queued" => j \in {queue[n] : n \in DOMAIN queue}
                   /\ jobs[j].pc \in Terminated => jobs[j].log # <<>>
             /\ dpc \in {"progress_exit", "raised"} =>
                   /\ queue = <<>>
                   /\ \A j \in DOMAIN jobs : jobs[j].pc \in Terminated)
    /\ [][exc.kind = "probe" =>
             /\ Len(jobs') = Len(jobs)
             /\ dpc' # dpc =>
                   /\ queue = <<>>
                   /\ \A j \in DOMAIN jobs : jobs[j].pc \in Terminated]_vars

\* The probe of the second URL failed; the first URL's job ran to the end of
\* its two-chunk body and logged it, and download() has raised.
C20_Witness ==
    /\ dpc = "raised"
    /\ exc = [kind |-> "probe", at |-> 2]
    /\ Len(jobs) = 1
    /\ jobs[1].pc = "completed"
    /\ jobs[1].sent > ChunkSize
    /\ LoggedDownloaded(1)

====
